---- MODULE Spec2Model ----
(***************************************************************************)
(* Model of createModel (src/src/index.ts): a zustand store holding the    *)
(* data fields, the wrapped asynchronous actions and the bookkeeping maps  *)
(* loadingStates / errorsState / lastUpdatedStates, plus reset(); and of    *)
(* createFreshnessHook: the accessor { isDataStale, lastUpdated } of a      *)
(* field.                                                                  *)
(*                                                                         *)
(* JavaScript is single threaded: the body of a wrapped action runs        *)
(* synchronously up to its `await` (line 71) and, once the awaited promise *)
(* has settled, from there to its end without interruption.  Every call of *)
(* zustand's set() notifies the subscribers synchronously, so every set()  *)
(* is one observable store state: each set() of the wrapper is one step    *)
(* here, and while one invocation is between its `await` and its `finally` *)
(* no other invocation, reset() or caller code takes a step.               *)
(***************************************************************************)
EXTENDS Integers, FiniteSets, Sequences, Bags, TLC

VARIABLES
    state,    \* the store's state object: key -> value (zustand's get())
    waiting,  \* the invocations suspended at the await of line 71 (a bag)
    cur,      \* the invocation whose continuation is executing, or NoCur
    settled,  \* the invocations whose promise has settled and whose caller
              \* has not observed it yet (a bag)
    now,      \* the clock read by `new Date()`, in milliseconds
    freshness,\* the accessor the freshness hook returned last (its closure)
    answer    \* what the last call of isDataStale() returned, and when

vars == <<state, waiting, cur, settled, now, freshness, answer>>

----------------------------------------------------------------------------
(* Bounds *)

MaxInv == 2     \* invocations that may be outstanding at the same time
MaxTime == 1    \* the clock runs over 0..MaxTime

----------------------------------------------------------------------------
(* The arguments of createModel *)

\* asyncActions (line 31): the names of the asynchronous actions.
asyncActions == {"getPage", "updatePage"}

\* The values actions put into data fields (README lines 189-213: a page
\* that was fetched).  They differ from the initial value, so that a field
\* holding its initial value again tells that reset() has been called.
Values == {"Home"}

\* Another page, for results that overwrite a field with a second value.
OtherValues == {"About"}

\* initialDataState (line 30): the initial data snapshot.
initialDataState == [k \in {"page"} |-> "null"]

DataKeys == DOMAIN initialDataState

\* A key an action's result may carry besides the initial data fields
\* (the result is typed Promise<any>: nothing restricts it to DataState).
ExtraKeys == {"draft"}

\* The reserved bookkeeping keys of the store state (lines 22-27).
ReservedKeys == {"loadingStates", "errorsState", "lastUpdatedStates", "reset"}

\* `null` as the value of a lastUpdatedStates entry (a Date is its getTime()).
Null == -1

----------------------------------------------------------------------------
(* JavaScript values, objects and the spread operator *)

EmptyObject == [k \in {} |-> 0]

\* { ...a, ...b }: the own keys of both, b's value where both have the key.
Spread(a, b) ==
    [k \in (DOMAIN a) \cup (DOMAIN b) |-> IF k \in DOMAIN b THEN b[k] ELSE a[k]]

\* { [key]: v }
Single(key, v) == [k \in {key} |-> v]

\* A value an action may settle with: its kind and, for an object, its own
\* enumerable properties.
JsValue(tag, props) == [tag |-> tag, props |-> props]

Undefined == JsValue("undefined", EmptyObject)

\* typeof v
TypeOf(v) ==
    IF v.tag \in {"null", "array", "object", "error"} THEN "object" ELSE v.tag

\* Array.isArray(v)
IsArray(v) == v.tag = "array"

\* Plain objects whose own keys are among `keys`, with data values.
PlainObjects(keys) ==
    UNION { { JsValue("object", f) : f \in [K -> Values] } : K \in SUBSET keys }

\* undefined, null and the primitives.
Primitives ==
    { JsValue(t, EmptyObject) :
        t \in {"undefined", "null", "number", "string", "boolean"} }

\* The arrays [] and ["Home"]: an array's own keys are its indices.
Arrays == { JsValue("array", EmptyObject), JsValue("array", Single("0", "Home")) }

NonObjects == Primitives \cup Arrays

\* What a well-typed action resolves to: a Partial<DataState> (README lines
\* 196-213, and the comment of line 72) or something that is no object.
Results == PlainObjects(DataKeys) \cup NonObjects

\* Patches that also carry a key the initial data snapshot does not have,
\* and patches that give a data field a second value.
ExtraObjects ==
    { JsValue("object", Spread(p.props, [k \in ExtraKeys |-> "Home"])) :
        p \in PlainObjects(DataKeys) }
    \cup { JsValue("object", f) : f \in [DataKeys -> OtherValues] }

ResultsExtra == Results \cup ExtraObjects

\* Plain objects that carry the reserved keys of the flag maps.
ReservedObjects ==
    { JsValue("object", [k \in {"loadingStates", "errorsState"} |-> m]) :
        m \in { [a \in asyncActions |-> b] : b \in BOOLEAN } }

ResultsReserved == Results \cup ReservedObjects

\* What an action may reject with (or throw).
Failures == { JsValue("error", Single("message", n)) : n \in 1..2 }

----------------------------------------------------------------------------
(* Construction (lines 35-59, 99-102) *)

initialLoadingStates == [k \in asyncActions |-> FALSE]

initialErrorsState == [k \in asyncActions |-> FALSE]

initialLastUpdatedStates == [k \in DOMAIN initialDataState |-> Null]

\* A wrapped action as a value of the store state.
Wrapped(key) == "wrapped"

stateWithBase ==
    Spread(Spread(initialDataState, [k \in asyncActions |-> "original"]),
           [k \in ReservedKeys |->
               CASE k = "loadingStates" -> initialLoadingStates
                 [] k = "errorsState" -> initialErrorsState
                 [] k = "lastUpdatedStates" -> initialLastUpdatedStates
                 [] OTHER -> "reset"])

wrappedAsyncActions == [k \in asyncActions |-> Wrapped(k)]

storeCreator == Spread(stateWithBase, wrappedAsyncActions)

\* An invocation is a record: `key` is the action, `st` the wrapper's
\* position, `out` what originalMethod settled with, `ret` what the wrapper
\* completes with.  Two fields only observe: `t0` is the time of the call,
\* and `others` tells whether another invocation of the same action has been
\* in flight since the call: "none", "during" (while this one was in flight)
\* or "after" (only after this one's promise had settled).
NoCur == [st |-> "none", key |-> "", t0 |-> 0, out |-> Undefined,
          ret |-> Undefined, others |-> "none"]

\* No accessor has been obtained from the freshness hook.
NoAccessor ==
    [obtained |-> FALSE, dataKey |-> "", options |-> Undefined,
     staleTimeMs |-> 0, lastUpdated |-> Null]

\* isDataStale() has not been called on the accessor.
NoAnswer == [given |-> FALSE, at |-> 0, value |-> FALSE]

Init ==
    /\ state = storeCreator
    /\ waiting = EmptyBag
    /\ cur = NoCur
    /\ settled = EmptyBag
    /\ now = 0
    /\ freshness = NoAccessor
    /\ answer = NoAnswer

----------------------------------------------------------------------------
(* The store *)

\* zustand's set(partial): the shallow merge of the partial into the state.
Set(partial) == Spread(state, partial)

\* Mutant: the start update does not clear the error flag.
StartUpdateKeepsError(s, key) ==
    [loadingStates |-> Spread(s.loadingStates, Single(key, TRUE))]

\* Mutant: the start update builds flag maps that hold the own key only.
StartUpdateOwnKeyOnly(s, key) ==
    [loadingStates |-> Single(key, TRUE), errorsState |-> Single(key, FALSE)]

\* Mutant: the start update builds the flag maps from the initial ones.
StartUpdateFromInitial(s, key) ==
    [loadingStates |-> Spread(initialLoadingStates, Single(key, TRUE)),
     errorsState |-> Spread(initialErrorsState, Single(key, FALSE))]

\* Lines 66-69: the updater of the start of an invocation.
StartUpdate(s, key) ==
    [loadingStates |-> Spread(s.loadingStates, Single(key, TRUE)),
     errorsState |-> Spread(s.errorsState, Single(key, FALSE))]

\* Mutant: the guard without the Array.isArray test.
IsPatchArrayPasses(result) ==
    TypeOf(result) = "object" /\ result.tag # "null"

\* Line 73: the guard that makes a result a patch of the data state.
IsPatch(result) ==
    TypeOf(result) = "object" /\ result.tag # "null" /\ ~IsArray(result)

\* Mutant: the merge keeps the timestamps of the result's keys only.
MergeUpdateDropsStamps(s, result, t) ==
    LET updatedDataState == result.props
        newLastUpdatedStates == [dataKey \in DOMAIN updatedDataState |-> t]
    IN  Spread(Spread(s, updatedDataState),
               Single("lastUpdatedStates",
                      Spread(initialLastUpdatedStates, newLastUpdatedStates)))

\* Mutant: the merge puts the result over the initial data, not over the
\* current state.
MergeUpdateFromInitial(s, result, t) ==
    LET updatedDataState == result.props
        newLastUpdatedStates == [dataKey \in DOMAIN updatedDataState |-> t]
    IN  Spread(Spread(Spread(s, initialDataState), updatedDataState),
               Single("lastUpdatedStates",
                      Spread(s.lastUpdatedStates, newLastUpdatedStates)))

\* Mutant: the merge spreads the current state over the result.
MergeUpdateStateWins(s, result, t) ==
    LET updatedDataState == result.props
        newLastUpdatedStates == [dataKey \in DOMAIN updatedDataState |-> t]
    IN  Spread(Spread(updatedDataState, s),
               Single("lastUpdatedStates",
                      Spread(s.lastUpdatedStates, newLastUpdatedStates)))

\* Lines 74-85: the updater that merges a result; t is `new Date()`.
MergeUpdate(s, result, t) ==
    LET updatedDataState == result.props
        newLastUpdatedStates == [dataKey \in DOMAIN updatedDataState |-> t]
    IN  Spread(Spread(s, updatedDataState),
               Single("lastUpdatedStates",
                      Spread(s.lastUpdatedStates, newLastUpdatedStates)))

\* Mutant: line 87 is missing.
SuccessUpdateSkipped(s, key) == EmptyObject

\* Line 87: the updater after a successful await.
SuccessUpdate(s, key) ==
    Single("errorsState", Spread(s.errorsState, Single(key, FALSE)))

\* Mutant: the catch block also puts the data back to its initial values.
CatchUpdateResetsData(s, key) ==
    Spread(initialDataState,
           Single("errorsState", Spread(s.errorsState, Single(key, TRUE))))

\* Mutant: the catch block clears the busy flag and leaves the error flag.
CatchUpdateClearsBusy(s, key) ==
    Single("loadingStates", Spread(s.loadingStates, Single(key, FALSE)))

\* Line 90: the updater of the catch block.
CatchUpdate(s, key) ==
    Single("errorsState", Spread(s.errorsState, Single(key, TRUE)))

\* Mutant: the finally block is missing.
FinallyUpdateSkipped(s, key) == EmptyObject

\* Line 93: the updater of the finally block.
FinallyUpdate(s, key) ==
    Single("loadingStates", Spread(s.loadingStates, Single(key, FALSE)))

\* Mutant: the wrapper swallows what originalMethod settled with.
CompletionSwallowed(v) == Undefined

\* Line 88 / line 91: what the wrapper completes with.
Completion(v) == v

----------------------------------------------------------------------------
(* Positions of an invocation *)

\* An invocation is executing between its await and the end of its finally
\* block: nothing else runs until it is done.
Running == cur.st # "none"

\* The invocations called and not yet observed by their callers.
Outstanding ==
    BagCardinality(waiting) + BagCardinality(settled) + (IF Running THEN 1 ELSE 0)

\* The action has an invocation whose promise has not settled.
InFlight(key) ==
    \/ \E r \in BagToSet(waiting) : r.key = key
    \/ Running /\ cur.key = key

\* What remains of the running invocation while it is suspended, and once
\* its promise has settled.
Suspended(r) == [key |-> r.key, t0 |-> r.t0, others |-> r.others]

Settled(r) ==
    [key |-> r.key, others |-> r.others,
     st |-> IF r.st = "returning" THEN "resolved" ELSE "rejected"]

\* A suspended invocation resumes at line 71.
Resumed(r, st, out, ret) ==
    [st |-> st, key |-> r.key, t0 |-> r.t0, out |-> out, ret |-> ret,
     others |-> r.others]

----------------------------------------------------------------------------
(* Operations *)

\* Mutant: a call waits until no invocation of the action is in flight.
MayCallWhenNotInFlight(key) ==
    ~Running /\ Outstanding < MaxInv /\ ~InFlight(key)

\* Line 65: the wrapper starts whenever it is called: it looks at no
\* earlier invocation.  (Callers run when no continuation is executing.)
MayCall(key) == ~Running /\ Outstanding < MaxInv

\* Lines 65-71: the wrapped action is called: the start update, then the
\* call of originalMethod, which leaves the invocation at `st` with `out`.
Call(key, st, out) ==
    /\ MayCall(key)
    /\ state' = Set(StartUpdate(state, key))
    /\ LET new == [st |-> st, key |-> key, t0 |-> now, out |-> out,
                   ret |-> Undefined,
                   others |-> IF InFlight(key) THEN "during" ELSE "none"]
           SeenWaiting(r) ==
               IF r.key = key THEN [r EXCEPT !.others = "during"] ELSE r
           SeenSettled(r) ==
               IF r.key = key /\ r.others = "none"
               THEN [r EXCEPT !.others = "after"] ELSE r
       IN  /\ settled' = BagOfAll(SeenSettled, settled)
           /\ IF st = "pending"
              THEN /\ waiting' = BagOfAll(SeenWaiting, waiting)
                                    (+) SetToBag({Suspended(new)})
                   /\ cur' = cur
              ELSE /\ waiting' = BagOfAll(SeenWaiting, waiting)
                   /\ cur' = new
    /\ UNCHANGED <<now, freshness, answer>>

\* originalMethod returns a promise: the wrapper suspends at the await.
Invoke(key) == Call(key, "pending", Undefined)

\* originalMethod throws before it returns a promise: control passes to
\* the catch block in the same synchronous run.
InvokeThrows(key, e) == Call(key, "thrown", e)

\* Lines 71-88: the awaited promise is fulfilled with `result` and the
\* wrapper resumes.  A patch is merged into the state (lines 73-86);
\* otherwise the wrapper goes straight to line 87.
Fulfil(r, result) ==
    /\ ~Running
    /\ r \in BagToSet(waiting)
    /\ waiting' = waiting (-) SetToBag({r})
    /\ IF IsPatch(result)
       THEN /\ state' = Set(MergeUpdate(state, result, now))
            /\ cur' = Resumed(r, "merged", result, Undefined)
       ELSE /\ state' = Set(SuccessUpdate(state, r.key))
            /\ cur' = Resumed(r, "returning", result, Completion(result))
    /\ UNCHANGED <<settled, now, freshness, answer>>

\* Lines 87-88 after a merge: the error flag is cleared, the result returned.
ClearError ==
    /\ cur.st = "merged"
    /\ state' = Set(SuccessUpdate(state, cur.key))
    /\ cur' = [cur EXCEPT !.st = "returning", !.ret = Completion(cur.out)]
    /\ UNCHANGED <<waiting, settled, now, freshness, answer>>

\* Lines 71, 89-91: the awaited promise is rejected with `e`: the wrapper
\* resumes in the catch block, sets the error flag and throws `e` again.
Reject(r, e) ==
    /\ ~Running
    /\ r \in BagToSet(waiting)
    /\ waiting' = waiting (-) SetToBag({r})
    /\ state' = Set(CatchUpdate(state, r.key))
    /\ cur' = Resumed(r, "throwing", e, Completion(e))
    /\ UNCHANGED <<settled, now, freshness, answer>>

\* Lines 89-91 after originalMethod threw synchronously.
SetError ==
    /\ cur.st = "thrown"
    /\ state' = Set(CatchUpdate(state, cur.key))
    /\ cur' = [cur EXCEPT !.st = "throwing", !.ret = Completion(cur.out)]
    /\ UNCHANGED <<waiting, settled, now, freshness, answer>>

\* Mutant: the busy flag is cleared on the success path only.
FinallyOnSuccessOnly ==
    /\ cur.st \in {"returning", "throwing"}
    /\ state' = IF cur.st = "returning"
                THEN Set(FinallyUpdate(state, cur.key)) ELSE state
    /\ settled' = settled (+) SetToBag({Settled(cur)})
    /\ cur' = NoCur
    /\ UNCHANGED <<waiting, now, freshness, answer>>

\* Lines 92-94: the busy flag is cleared; the wrapper's promise settles
\* with the completion `ret`.
Finally ==
    /\ cur.st \in {"returning", "throwing"}
    /\ state' = Set(FinallyUpdate(state, cur.key))
    /\ settled' = settled (+) SetToBag({Settled(cur)})
    /\ cur' = NoCur
    /\ UNCHANGED <<waiting, now, freshness, answer>>

\* The caller's continuation (README lines 331-337: await / catch) receives
\* the value or the failure the wrapper's promise settled with.
Observe(r) ==
    /\ ~Running
    /\ r \in BagToSet(settled)
    /\ settled' = settled (-) SetToBag({r})
    /\ UNCHANGED <<state, waiting, cur, now, freshness, answer>>

\* Mutant: reset() restores the bookkeeping of the data and not the data.
ResetUpdateBookkeeping == Single("lastUpdatedStates", initialLastUpdatedStates)

\* Mutant: reset() also restores the two flag maps.
ResetUpdateClearsFlags ==
    Spread(initialDataState,
           [loadingStates |-> initialLoadingStates,
            errorsState |-> initialErrorsState])

\* Mutant: reset() also clears the busy flags.
ResetUpdateClearsBusy ==
    Spread(initialDataState, Single("loadingStates", initialLoadingStates))

\* Mutant: reset() also restores lastUpdatedStates.
ResetUpdateClearsStamps ==
    Spread(initialDataState,
           Single("lastUpdatedStates", initialLastUpdatedStates))

\* Line 58: the partial state reset() passes to set().
ResetUpdate == initialDataState

\* Line 58: reset().  It looks at no invocation: those in flight stay so.
Reset ==
    /\ ~Running
    /\ state' = Set(ResetUpdate)
    /\ UNCHANGED <<waiting, cur, settled, now, freshness, answer>>

\* Time passes.  The clock is read when a call starts and when a
\* continuation starts (line 78), so a tick inside a continuation is the
\* same as one right after it.
Tick ==
    /\ ~Running
    /\ now < MaxTime
    /\ now' = now + 1
    /\ UNCHANGED <<state, waiting, cur, settled, freshness, answer>>

----------------------------------------------------------------------------
(* Specifications *)

Environment ==
    \/ \E key \in asyncActions : Invoke(key)
    \/ \E key \in asyncActions, e \in Failures : InvokeThrows(key, e)
    \/ \E r \in BagToSet(waiting), e \in Failures : Reject(r, e)
    \/ ClearError
    \/ SetError
    \/ Finally
    \/ \E r \in BagToSet(settled) : Observe(r)
    \/ Reset
    \/ Tick

\* Actions resolve to patches of the data state or to non-objects.
Next ==
    \/ \E r \in BagToSet(waiting), result \in Results :
          Fulfil(r, result)
    \/ Environment

Spec == Init /\ [][Next]_vars

\* Actions may also resolve to objects with a key that is no initial field.
NextExtra ==
    \/ \E r \in BagToSet(waiting), result \in ResultsExtra :
          Fulfil(r, result)
    \/ Environment

SpecExtra == Init /\ [][NextExtra]_vars

\* Actions may also resolve to objects carrying reserved keys.
NextReserved ==
    \/ \E r \in BagToSet(waiting), result \in ResultsReserved :
          Fulfil(r, result)
    \/ Environment

SpecReserved == Init /\ [][NextReserved]_vars

----------------------------------------------------------------------------
(* Reading the store and the steps of an invocation *)

busy(A) == state.loadingStates[A]

error(A) == state.errorsState[A]

\* The suspended invocations this step adds or marks: all of one action.
NewlyWaiting ==
    { r \in BagToSet(waiting') : CopiesIn(r, waiting') > CopiesIn(r, waiting) }

\* The wrapped action `key` is called in this step and suspends at its await.
Suspends(key) ==
    /\ BagCardinality(waiting') > BagCardinality(waiting)
    /\ \E r \in NewlyWaiting : r.key = key

\* The wrapped action `key` is called in this step.
Calls(key) ==
    /\ Outstanding' > Outstanding
    /\ Suspends(key) \/ (Running' /\ cur'.key = key)

\* The running invocation's promise settles in this step.
Settles == Running /\ ~Running'

\* The caller of the settled invocation r observes it in this step.
Observes(r) ==
    /\ BagCardinality(settled') < BagCardinality(settled)
    /\ CopiesIn(r, settled') < CopiesIn(r, settled)

\* The invocations that are in flight.
Flying == BagToSet(waiting) \cup (IF Running THEN {Suspended(cur)} ELSE {})

----------------------------------------------------------------------------
(* Claims *)

\* C1: right after a wrapped action A has been invoked and has suspended at
\* its await (the underlying computation has not settled), loadingStates[A]
\* is true and errorsState[A] is false, whatever the flags were before.
C1_BusyAndNoErrorAfterInvoke ==
    [][\A A \in asyncActions :
          Suspends(A) =>
              /\ state'.loadingStates[A] = TRUE
              /\ state'.errorsState[A] = FALSE]_vars

\* C1 witness: A is in flight with busy true and error false, while an
\* earlier invocation of A, which had failed before this one was called
\* (nothing else of A has been in flight since the call), is still unobserved.
C1_Witness ==
    \E r \in BagToSet(waiting), q \in BagToSet(settled) :
        /\ r.others = "none"
        /\ q.st = "rejected" /\ q.key = r.key
        /\ busy(r.key) /\ ~error(r.key)

\* C2: when the wrapper's promise of a successful invocation of A resolves,
\* loadingStates[A] and errorsState[A] are false, and the promise resolves
\* with the value originalMethod resolved to.
C2_SuccessClearsFlagsAndReturnsResult ==
    [][Settles /\ cur.st = "returning" =>
          /\ state'.loadingStates[cur.key] = FALSE
          /\ state'.errorsState[cur.key] = FALSE
          /\ cur.ret = cur.out
          /\ cur.out \notin Failures
          /\ \E r \in BagToSet(settled') : r.key = cur.key /\ r.st = "resolved"]_vars

\* C2 witness: an invocation has resolved although another invocation of
\* the same action failed while it was in flight; both flags are false.
C2_Witness ==
    \E r, q \in BagToSet(settled) :
        /\ r.st = "resolved" /\ r.others = "during"
        /\ q.st = "rejected" /\ q.key = r.key
        /\ ~busy(r.key) /\ ~error(r.key)

\* C3 as stated: a failing invocation of A rejects with the failure of the
\* underlying computation, and when its caller observes the failure
\* loadingStates[A] is false and errorsState[A] is true.
C3_FlagsWhenCallerObservesFailure ==
    [][/\ Settles /\ cur.st = "throwing" => cur.ret = cur.out
       /\ \A r \in BagToSet(settled) :
             Observes(r) /\ r.st = "rejected" => ~busy(r.key) /\ error(r.key)]_vars

\* C3 amended: a failing invocation of A rejects with the failure of the
\* underlying computation; at the moment its promise rejects
\* loadingStates[A] is false and errorsState[A] is true; and so they are
\* when the caller observes the failure, provided no other invocation of A
\* has been in flight since this one was called.
C3_FailureRethrownAndFlagged ==
    [][/\ Settles /\ cur.st = "throwing" =>
             /\ cur.ret = cur.out
             /\ cur.out \in Failures
             /\ state'.loadingStates[cur.key] = FALSE
             /\ state'.errorsState[cur.key] = TRUE
             /\ \E r \in BagToSet(settled') : r.key = cur.key /\ r.st = "rejected"
       /\ \A r \in BagToSet(settled) :
             Observes(r) /\ r.st = "rejected" /\ r.others = "none" =>
                 ~busy(r.key) /\ error(r.key)]_vars

\* C3 witness: a failed invocation is about to be observed by its caller
\* with busy false and error true, after an invocation of another action
\* has settled as well.
C3_Witness ==
    \E r, q \in BagToSet(settled) :
        /\ r.st = "rejected" /\ r.others = "none"
        /\ q.key # r.key
        /\ ~busy(r.key) /\ error(r.key)

\* C4: for a failing invocation of A with no other invocation of A in
\* flight since its call: once the catch block has run, errorsState[A] is
\* true while loadingStates[A] is still true (the error is set before the
\* busy flag is cleared); from the rejection until the caller observes it
\* errorsState[A] is true and loadingStates[A] false; and while no
\* invocation of A is in flight the flags of A do not change: no state
\* after the failure has both flags false.
C4_ErrorSetBeforeBusyCleared ==
    /\ [](/\ cur.st = "throwing" /\ cur.others = "none" =>
                error(cur.key) /\ busy(cur.key)
          /\ \A r \in BagToSet(settled) :
                r.st = "rejected" /\ r.others = "none" =>
                    error(r.key) /\ ~busy(r.key))
    /\ [][\A A \in asyncActions :
             ~InFlight(A) /\ ~InFlight(A)' =>
                 /\ state'.errorsState[A] = error(A)
                 /\ state'.loadingStates[A] = busy(A)]_vars

\* C4 witness: the only invocation of A has run its catch block and not
\* yet its finally block: error is true and busy is still true.
C4_Witness ==
    /\ cur.st = "throwing" /\ cur.others = "none"
    /\ waiting = EmptyBag /\ settled = EmptyBag
    /\ error(cur.key) /\ busy(cur.key)

\* C5 as stated: loadingStates[A] is true exactly while at least one
\* invocation of A is in flight, overlapping invocations included.
C5_BusyIffInFlight ==
    \A A \in asyncActions : busy(A) = InFlight(A)

\* C5 amended: loadingStates[A] is false whenever no invocation of A is in
\* flight, and it is true while an invocation of A is in flight, provided
\* no other invocation of A has been in flight since that one was called.
C5_BusyWhileAloneInFlight ==
    \A A \in asyncActions :
        /\ ~InFlight(A) => ~busy(A)
        /\ \A r \in Flying : r.key = A /\ r.others = "none" => busy(A)

\* C5 witness: A is in flight alone and busy, while an invocation of
\* another action has come and gone (settled, its busy flag cleared).
C5_Witness ==
    \E r \in BagToSet(waiting), q \in BagToSet(settled) :
        /\ r.others = "none" /\ q.key # r.key
        /\ busy(r.key) /\ ~busy(q.key)

\* The running invocation resumes from its await in this step.
Resumes == ~Running /\ Running' /\ BagCardinality(waiting') < BagCardinality(waiting)

\* The step writes nothing but the two flags of the action `key`.
OnlyFlagsOf(key) ==
    /\ DOMAIN state' = DOMAIN state
    /\ \A k \in DOMAIN state \ {"loadingStates", "errorsState"} :
          state'[k] = state[k]
    /\ \A f \in {"loadingStates", "errorsState"} :
          /\ DOMAIN state'[f] = DOMAIN state[f]
          /\ \A a \in DOMAIN state[f] \ {key} : state'[f][a] = state[f][a]

\* C6: when an invocation whose underlying computation resolved to a plain
\* object settles, every key k of that object holds the resolved value
\* in the store and lastUpdatedStates[k] is a timestamp (not null) no
\* earlier than the time the invocation was called.
C6_PlainObjectMergedAndStamped ==
    [][Settles /\ cur.st = "returning" /\ cur.out.tag = "object" =>
          \A k \in DOMAIN cur.out.props :
              /\ k \in DOMAIN state'
              /\ state'[k] = cur.out.props[k]
              /\ k \in DOMAIN state'.lastUpdatedStates
              /\ state'.lastUpdatedStates[k] # Null
              /\ state'.lastUpdatedStates[k] >= cur.t0]_vars

\* C6 witness: an invocation called at time 0 has merged {page, draft} at
\* a later time, while another invocation is still in flight; the store
\* holds both values with the later timestamp.
C6_Witness ==
    /\ cur.st = "returning" /\ cur.t0 = 0
    /\ DOMAIN cur.out.props = {"page", "draft"}
    /\ waiting # EmptyBag
    /\ state["page"] = cur.out.props["page"] /\ state["page"] = "Home"
    /\ state["draft"] = cur.out.props["draft"]
    /\ state.lastUpdatedStates["page"] > cur.t0
    /\ state.lastUpdatedStates["draft"] > cur.t0

\* C7: an invocation whose underlying computation resolves to null, an
\* array or any other non-object value changes no data field and no entry
\* of lastUpdatedStates: its call, its resumption and its settling write
\* only the two flags of its own action.
C7_NonObjectResultLeavesData ==
    [][/\ \A A \in asyncActions : Calls(A) => OnlyFlagsOf(A)
       /\ Resumes /\ cur'.st # "throwing" /\ cur'.out.tag # "object" =>
             OnlyFlagsOf(cur'.key)
       /\ Running /\ cur.st \in {"merged", "returning"} /\ cur.out.tag # "object" =>
             OnlyFlagsOf(cur.key)]_vars

\* C7 witness: an invocation has resolved to a non-empty array and is about
\* to settle; the data merged earlier and its timestamp are still there.
C7_Witness ==
    /\ cur.st = "returning" /\ cur.out.tag = "array"
    /\ DOMAIN cur.out.props # {}
    /\ state["page"] = "Home"
    /\ state.lastUpdatedStates["page"] # Null
    /\ DOMAIN state = DOMAIN storeCreator

\* C8: a failing invocation changes no data field and no entry of
\* lastUpdatedStates: its call, its catch block and its finally block write
\* only the two flags of its own action.
C8_FailureLeavesData ==
    [][/\ \A A \in asyncActions : Calls(A) => OnlyFlagsOf(A)
       /\ Resumes /\ cur'.st = "throwing" => OnlyFlagsOf(cur'.key)
       /\ Running /\ cur.st \in {"thrown", "throwing"} => OnlyFlagsOf(cur.key)]_vars

\* C8 witness: an invocation has failed after data had been merged; the
\* data and its timestamp are still there and the error flag is set.
C8_Witness ==
    \E r \in BagToSet(settled) :
        /\ r.st = "rejected" /\ error(r.key)
        /\ state["page"] = "Home"
        /\ state.lastUpdatedStates["page"] # Null

\* What the underlying computation of the invocation taking this step
\* settled with (undefined while it has not settled).
Carried == IF Running THEN cur.out ELSE IF Running' THEN cur'.out ELSE Undefined

\* The step is one of an invocation of the action B.
StepOf(B) ==
    \/ Calls(B)
    \/ ~Running /\ Running' /\ cur'.key = B
    \/ Running /\ cur.key = B

\* C9: the steps of an invocation of B (call, success, failure, settling)
\* never change loadingStates[A] or errorsState[A] of another action A,
\* provided B's result carries no key loadingStates or errorsState.
C9_OtherActionsFlagsUntouched ==
    [][\A B \in asyncActions :
          StepOf(B) /\ DOMAIN Carried.props \cap ReservedKeys = {} =>
              \A A \in asyncActions \ {B} :
                  /\ state'.loadingStates[A] = state.loadingStates[A]
                  /\ state'.errorsState[A] = state.errorsState[A]]_vars

\* C9 witness: A is in flight and busy, its error flag false, while an
\* invocation of another action B has failed and settled: B's error flag
\* is true and B's busy flag false.
C9_Witness ==
    \E r \in BagToSet(waiting), q \in BagToSet(settled) :
        /\ r.key # q.key /\ q.st = "rejected"
        /\ busy(r.key) /\ ~error(r.key)
        /\ ~busy(q.key) /\ error(q.key)

\* C10: a call of a wrapped action proceeds whether or not an invocation
\* of the same action is in flight (calls are neither serialized nor
\* deduplicated), and when the last of the invocations of A in flight
\* settles, loadingStates[A] is false and errorsState[A] tells whether
\* that last invocation failed.
C10_OverlapLastSettlingWins ==
    /\ [](\A A \in asyncActions :
             ~Running /\ Outstanding < MaxInv => ENABLED Invoke(A))
    /\ [][\A A \in asyncActions :
             Settles /\ cur.key = A /\ ~InFlight(A)' =>
                 /\ state'.loadingStates[A] = FALSE
                 /\ state'.errorsState[A] = (cur.st = "throwing")]_vars

\* C10 witness: two invocations of the same action overlapped, one has
\* resolved and the other has failed, none is in flight any more, and the
\* error flag is set: the failing one settled last.
C10_Witness ==
    \E r, q \in BagToSet(settled) :
        /\ r.key = q.key
        /\ r.st = "resolved" /\ r.others = "during"
        /\ q.st = "rejected" /\ q.others = "during"
        /\ ~InFlight(r.key)
        /\ ~busy(r.key) /\ error(r.key)

----------------------------------------------------------------------------
(* reset() *)

\* reset() is called in this step and changes the store: no other operation
\* leaves every invocation and the clock as they are.
Resets == ~Running /\ state' # state /\ UNCHANGED <<waiting, cur, settled, now>>

\* C11: after any sequence of invocations and settlements, reset() leaves
\* every data field that is a key of the initial data snapshot equal to its
\* initial value.
C11_ResetRestoresData ==
    [][Resets =>
          \A k \in DOMAIN initialDataState : state'[k] = initialDataState[k]]_vars

\* C11 witness: an invocation has merged a page and resolved, nothing is in
\* flight, and the field holds its initial value again (its timestamp
\* tells that it had been written): reset() has been called.
C11_Witness ==
    /\ ~Running /\ waiting = EmptyBag
    /\ \E r \in BagToSet(settled) : r.st = "resolved"
    /\ state["page"] = initialDataState["page"]
    /\ state.lastUpdatedStates["page"] # Null

\* C12: reset() changes only data fields: loadingStates, errorsState and
\* lastUpdatedStates are the same before and after it, and the wrapped
\* actions and reset itself stay in place.
C12_ResetChangesOnlyData ==
    [][Resets =>
          /\ DOMAIN state' = DOMAIN state
          /\ \A k \in DOMAIN state \ DOMAIN initialDataState :
                state'[k] = state[k]]_vars

\* C12 witness: reset() has been called (the page holds its initial value
\* and has a timestamp) and the bookkeeping is as it was: one action is in
\* flight and busy, another has failed and its error flag is set.
C12_Witness ==
    \E r \in BagToSet(waiting), q \in BagToSet(settled) :
        /\ q.st = "rejected" /\ q.key # r.key
        /\ busy(r.key) /\ error(q.key)
        /\ state["page"] = initialDataState["page"]
        /\ state.lastUpdatedStates["page"] # Null
        /\ \A a \in asyncActions : state[a] = Wrapped(a)

\* C13 as stated: reset() puts lastUpdatedStates[k] back to null for every
\* data field k.
C13_ResetClearsLastUpdated ==
    [][Resets =>
          \A k \in DOMAIN initialDataState :
              state'.lastUpdatedStates[k] = Null]_vars

\* C13 amended: reset() leaves lastUpdatedStates as it is: the timestamp of
\* a field that has been written stays, while the field holds its initial
\* value again.
C13_ResetKeepsLastUpdated ==
    [][Resets => state'.lastUpdatedStates = state.lastUpdatedStates]_vars

\* C13 witness: every invocation has been observed, the page holds its
\* initial value again and its timestamp is still there.
C13_Witness ==
    /\ ~Running /\ waiting = EmptyBag /\ settled = EmptyBag
    /\ state["page"] = initialDataState["page"]
    /\ state.lastUpdatedStates["page"] # Null

----------------------------------------------------------------------------
(* Invariants of the bookkeeping maps *)

\* C14: under any interleaving of invocations, successful or failing (and
\* of reset() and the passing of time), an entry of lastUpdatedStates that
\* holds a timestamp never returns to null, never disappears and never
\* decreases.
C14_LastUpdatedOnlyEverSet ==
    [][\A k \in DOMAIN state.lastUpdatedStates :
          state.lastUpdatedStates[k] # Null =>
              /\ k \in DOMAIN state'.lastUpdatedStates
              /\ state'.lastUpdatedStates[k] # Null
              /\ state'.lastUpdatedStates[k] >= state.lastUpdatedStates[k]]_vars

\* C14 witness: the page was stamped at time 0; later another invocation
\* has stamped another key and an invocation has failed, and the page's
\* timestamp is still the one of time 0.
C14_Witness ==
    /\ "draft" \in DOMAIN state.lastUpdatedStates
    /\ state.lastUpdatedStates["page"] = 0
    /\ state.lastUpdatedStates["draft"] > 0
    /\ \E q \in BagToSet(settled) : q.st = "rejected"

\* C15: initially every entry of loadingStates and errorsState is false and
\* lastUpdatedStates is null for every field of the initial data snapshot;
\* and in every reachable state the key set of loadingStates and that of
\* errorsState are exactly the action names given to createModel and every
\* value is a boolean.
C15_FlagMapsKeyedByActions ==
    /\ /\ \A a \in asyncActions :
             state.loadingStates[a] = FALSE /\ state.errorsState[a] = FALSE
       /\ DOMAIN state.lastUpdatedStates = DOMAIN initialDataState
       /\ \A k \in DOMAIN initialDataState : state.lastUpdatedStates[k] = Null
    /\ [](\A f \in {"loadingStates", "errorsState"} :
             /\ DOMAIN state[f] = asyncActions
             /\ \A a \in asyncActions : state[f][a] \in BOOLEAN)

\* C15 witness: after a merge and a reset(), with one invocation suspended
\* and another in its catch block, both maps have the action names as keys
\* and hold a true entry.
C15_Witness ==
    /\ cur.st = "throwing" /\ waiting # EmptyBag
    /\ state["page"] = initialDataState["page"]
    /\ state.lastUpdatedStates["page"] # Null
    /\ DOMAIN state.loadingStates = asyncActions
    /\ DOMAIN state.errorsState = asyncActions
    /\ \E a \in asyncActions : state.loadingStates[a] = TRUE
    /\ \E a \in asyncActions : state.errorsState[a] = TRUE

----------------------------------------------------------------------------
(* createFreshnessHook (lines 113-133) *)

\* Line 120: 5 * 60 * 1000.
DefaultStaleTimeMs == 5 * 60 * 1000

\* The options a caller may pass: none, or { staleTimeMs }.
Options ==
    {Undefined} \cup { JsValue("object", Single("staleTimeMs", n)) : n \in 0..1 }

\* Line 120: `const { staleTimeMs = 5 * 60 * 1000 } = options || {}`.
StaleTimeMsOf(options) ==
    LET given == IF options.tag = "undefined" THEN EmptyObject ELSE options.props
    IN  IF "staleTimeMs" \in DOMAIN given THEN given["staleTimeMs"]
        ELSE DefaultStaleTimeMs

\* Mutant: a field is stale as soon as the window has elapsed.
IsDataStaleAtEquality(lastUpdated, staleTimeMs, t) ==
    IF lastUpdated = Null THEN TRUE ELSE (t - lastUpdated) >= staleTimeMs

\* Lines 123-129: isDataStale, with the values its closure holds and the
\* time t that `new Date()` gives.
IsDataStale(lastUpdated, staleTimeMs, t) ==
    IF lastUpdated = Null THEN TRUE ELSE (t - lastUpdated) > staleTimeMs

\* Lines 116-132: the hook is called: it reads staleTimeMs from the options
\* and the field's entry of lastUpdatedStates from the store, and returns
\* the accessor whose isDataStale closes over both.
UseFreshness(dataKey, options) ==
    /\ ~Running
    /\ freshness' = [obtained |-> TRUE, dataKey |-> dataKey, options |-> options,
                     staleTimeMs |-> StaleTimeMsOf(options),
                     lastUpdated |-> state.lastUpdatedStates[dataKey]]
    /\ answer' = NoAnswer
    /\ UNCHANGED <<state, waiting, cur, settled, now>>

\* Lines 123-129: isDataStale() of the accessor is called.
CallIsDataStale ==
    /\ ~Running
    /\ freshness.obtained
    /\ answer' = [given |-> TRUE, at |-> now,
                  value |-> IsDataStale(freshness.lastUpdated,
                                        freshness.staleTimeMs, now)]
    /\ UNCHANGED <<state, waiting, cur, settled, now, freshness>>

Hook ==
    \/ \E dataKey \in DataKeys, options \in Options :
          UseFreshness(dataKey, options)
    \/ CallIsDataStale

\* The store and the freshness hook together.
NextFresh == Next \/ Hook

SpecFresh == Init /\ [][NextFresh]_vars

\* The times at which isDataStale is tried: around the windows 0, 1 and
\* DefaultStaleTimeMs after a timestamp of 0 or 1.
StaleTimes ==
    {0, 1, 2, DefaultStaleTimeMs, DefaultStaleTimeMs + 1, DefaultStaleTimeMs + 2}

\* A store whose field was last updated at some time, or never, and a clock
\* that is not behind that time.
InitStale ==
    /\ now \in StaleTimes
    /\ \E lastUpdated \in {Null} \cup { t \in StaleTimes : t <= now } :
          state = Spread(storeCreator,
                         Single("lastUpdatedStates",
                                [k \in DOMAIN initialDataState |-> lastUpdated]))
    /\ waiting = EmptyBag
    /\ cur = NoCur
    /\ settled = EmptyBag
    /\ freshness = NoAccessor
    /\ answer = NoAnswer

\* Time passes to a later one of the times.
Elapse(t) ==
    /\ t > now
    /\ now' = t
    /\ UNCHANGED <<state, waiting, cur, settled, freshness, answer>>

NextStale == Hook \/ \E t \in StaleTimes : Elapse(t)

SpecStale == InitStale /\ [][NextStale]_vars

\* C16: isDataStale() returns true if and only if the field's lastUpdated
\* is null or now - lastUpdated > staleTimeMs, where staleTimeMs is the
\* option given or 300000 when none is given; when now - lastUpdated
\* equals staleTimeMs it returns false.
C16_StaleIffNeverOrOlderThanWindow ==
    answer.given =>
        LET lastUpdated == state.lastUpdatedStates[freshness.dataKey]
            staleTimeMs == IF freshness.options = Undefined THEN 300000
                           ELSE freshness.options.props["staleTimeMs"]
        IN  /\ answer.value =
                  (lastUpdated = Null \/ answer.at - lastUpdated > staleTimeMs)
            /\ lastUpdated # Null /\ answer.at - lastUpdated = staleTimeMs =>
                  answer.value = FALSE

\* C16 witness: no option was given, the field was updated at time 1 and
\* isDataStale() is called exactly 300000 later: it has returned false.
C16_Witness ==
    /\ answer.given /\ answer.value = FALSE
    /\ freshness.options = Undefined
    /\ state.lastUpdatedStates[freshness.dataKey] = 1
    /\ answer.at = 300001

\* C17 as stated: a call of isDataStale() reads the store's current
\* lastUpdatedStates[dataKey] and the current time: what it returns is what
\* the current timestamp of the field gives, also when an action has
\* updated the field since the accessor was obtained.
C17_IsDataStaleReadsCurrentStore ==
    [][answer' # answer /\ answer'.given =>
          answer'.value =
              IsDataStale(state.lastUpdatedStates[freshness.dataKey],
                          freshness.staleTimeMs, now)]_vars

----------------------------------------------------------------------------
(* Liveness *)

\* The underlying computation of an invocation of A that is suspended
\* settles, with a value or with a failure, and the wrapper resumes.
UnderlyingSettles(A) ==
    \E r \in BagToSet(waiting) :
        /\ r.key = A
        /\ \/ \E result \in Results : Fulfil(r, result)
           \/ \E e \in Failures : Reject(r, e)

\* A continuation that has started runs to its end (lines 71-94 hold no
\* other await), and the underlying computation of every action that has
\* invocations in flight eventually settles: the continuation is queued
\* when the promise settles and runs when the running one is done.
Fairness ==
    /\ WF_vars(ClearError \/ SetError \/ Finally)
    /\ \A A \in asyncActions : SF_vars(UnderlyingSettles(A))

SpecLive == Init /\ [][Next]_vars /\ Fairness

\* C18: provided every underlying computation eventually settles, a busy
\* flag that is true is eventually false, on the success path and on the
\* failure path; and whenever no invocation is in flight every busy flag
\* is false.
C18_BusyEventuallyCleared ==
    /\ \A A \in asyncActions : busy(A) ~> ~busy(A)
    /\ [](waiting = EmptyBag /\ ~Running => \A A \in asyncActions : ~busy(A))

\* C18 witness: one action has resolved and another has failed, nothing is
\* in flight and no busy flag is left true.
C18_Witness ==
    /\ waiting = EmptyBag /\ ~Running
    /\ \E r, q \in BagToSet(settled) :
          r.st = "resolved" /\ q.st = "rejected" /\ r.key # q.key
    /\ \A A \in asyncActions : ~busy(A)

----------------------------------------------------------------------------
(* Concurrent merges, and reset() during an invocation *)

\* The data fields of the store: its keys other than the bookkeeping and
\* the actions.
DataFields(s) == DOMAIN s \ (ReservedKeys \cup asyncActions)

\* C19: concurrent merges lose no update.  When an invocation resolves to
\* a plain object, whatever other invocations are in flight or have
\* settled, every key of its result receives the result's value and a
\* timestamp (so a shared key holds the value of the invocation that
\* settles last), and every other data field and timestamp is left as it
\* was; the later steps of the continuation change no data field.
C19_MergesLoseNoUpdate ==
    [][/\ Resumes /\ cur'.st = "merged" =>
             LET patch == cur'.out.props
             IN  /\ \A k \in DOMAIN patch :
                       /\ state'[k] = patch[k]
                       /\ state'.lastUpdatedStates[k] # Null
                 /\ \A k \in DataFields(state) \ DOMAIN patch :
                       k \in DOMAIN state' /\ state'[k] = state[k]
                 /\ \A k \in DOMAIN state.lastUpdatedStates \ DOMAIN patch :
                       /\ k \in DOMAIN state'.lastUpdatedStates
                       /\ state'.lastUpdatedStates[k] = state.lastUpdatedStates[k]
       /\ Running =>
             /\ DataFields(state') = DataFields(state)
             /\ \A k \in DataFields(state) : state'[k] = state[k]
             /\ state'.lastUpdatedStates = state.lastUpdatedStates]_vars

\* C19 witness: two invocations of one action were in flight together and
\* both have resolved; the page and the draft were merged at different
\* times, so by different invocations, and both fields hold their values
\* and timestamps.
C19_Witness ==
    /\ ~Running /\ waiting = EmptyBag
    /\ \E r \in BagToSet(settled) :
          r.st = "resolved" /\ r.others = "during" /\ CopiesIn(r, settled) = 2
    /\ "draft" \in DOMAIN state
    /\ state["page"] \in Values \cup OtherValues
    /\ state["draft"] = "Home"
    /\ state.lastUpdatedStates["page"] # Null
    /\ state.lastUpdatedStates["draft"] # Null
    /\ state.lastUpdatedStates["page"] # state.lastUpdatedStates["draft"]

\* C20: reset() does not cancel or affect invocations in flight: a busy
\* flag of an action in flight stays true over a reset() and the action
\* stays in flight; a suspended invocation can always resume; and when it
\* resolves to a plain object, after a reset() or not, the keys of its
\* result are written over the values in the store and stamped with the
\* current time.
C20_ResetLeavesInFlightInvocations ==
    /\ [][/\ Resets =>
                \A A \in asyncActions :
                    InFlight(A) /\ busy(A) =>
                        InFlight(A)' /\ state'.loadingStates[A] = TRUE
          /\ Resumes /\ cur'.st # "throwing" /\ cur'.out.tag = "object" =>
                \A k \in DOMAIN cur'.out.props :
                    /\ state'[k] = cur'.out.props[k]
                    /\ state'.lastUpdatedStates[k] = now]_vars
    /\ [](\A r \in BagToSet(waiting) :
             ~Running =>
                 ENABLED (\E result \in PlainObjects(DataKeys) : Fulfil(r, result)))

\* C20 witness: after this invocation was called another one merged the
\* page, then reset() put the page back to its initial value, and now
\* this invocation has resolved to {draft}: the draft is merged and
\* stamped.
C20_Witness ==
    /\ cur.st = "returning"
    /\ DOMAIN cur.out.props = {"draft"}
    /\ state["page"] = initialDataState["page"]
    /\ state.lastUpdatedStates["page"] > cur.t0
    /\ state["draft"] = cur.out.props["draft"]
    /\ state.lastUpdatedStates["draft"] >= state.lastUpdatedStates["page"]

====
